---------------------------- MODULE Spec2Model ----------------------------
(***************************************************************************)
(* A model of the crossfade / chop / tempo glue of MainComponent.cpp.      *)
(*                                                                         *)
(* Numbers.  The program computes in IEEE floats; the model computes in    *)
(* fixed point with integers:                                              *)
(*   crossfader position   1.0  = PosScale                                 *)
(*   linear gain           1.0  = GainScale                                *)
(*   volume                1 dB = 100        (centi-decibels)              *)
(*   time                  1 ms = 1                                        *)
(*   tempo                 1 BPM = 1                                       *)
(*   axis value            1.0  = AxisScale                                *)
(* Tempos, offsets and delays are doubles in the program; the model holds  *)
(* them as exact fractions << n, d >>, where d = 0 gives the two non-finite *)
(* results of IEEE arithmetic: << 1, 0 >> is +inf and << 0, 0 >> is NaN.    *)
(***************************************************************************)
EXTENDS Integers, Sequences, FiniteSets, TLC

VARIABLES
    now,             \* juce::Time::getMillisecondCounterHiRes()
    chopStartTime,   \* MainComponent::chopStartTime
    chopReleaseDelay,\* MainComponent::chopReleaseDelay
    crossfader,      \* chopComponent's crossfader value
    gainTrack1,      \* updateCrossfader: last linear gain of deck A
    gainTrack2,      \* updateCrossfader: last linear gain of deck B
    volumeDb1,       \* volumeAndPan1's volume
    volumeDb2,       \* volumeAndPan2's volume
    baseTempo,       \* MainComponent::baseTempo
    liveTempo,       \* screwComponent's tempo
    trackOffset,     \* MainComponent::trackOffset
    timerInterval,   \* period of MainComponent's juce::Timer
    timerDue,        \* time at which the timer is next due
    deferredPending, \* a deferred chop release is scheduled and has not fired
    uiHeld,          \* the chop button of the UI is down
    padHeld,         \* the SOUTH button of the gamepad is down
    chopState,       \* history: state of the chop gesture (Idle, Pressed, PendingRelease)
    lastOp,          \* history: the operation that produced this state
    clip1,           \* the wave clip of track 1 (deck A)
    clip2,           \* the wave clip of track 2 (deck B)
    speedRatio,      \* thumbnail's speed ratio
    delayTempo,      \* delayComponent's tempo
    delayTime,       \* delayComponent's delay time, ms
    leftX,           \* gamepadAxisMoved: static float leftX
    leftY,           \* gamepadAxisMoved: static float leftY
    flangerSpeed,    \* flangerComponent's speed
    flangerDepth,    \* flangerComponent's depth
    flangerWidth,    \* flangerComponent's width
    rightX,          \* gamepadAxisMoved: static float rightX
    rightY,          \* gamepadAxisMoved: static float rightY
    phaserRate,      \* phaserComponent's rate
    phaserDepth,     \* phaserComponent's depth
    phaserFeedback,  \* phaserComponent's feedback
    brakeValue,      \* vinylBrakeComponent's brake value
    springActive,    \* vinylBrakeComponent's spring animation is running
    rightTrigger,    \* history: the value of the last right-trigger event
    track1Clips,     \* the clips of track 1
    track2Clips,     \* the clips of track 2
    playState,       \* MainComponent::playState
    transportPlaying,  \* edit.getTransport().isPlaying()
    transportPosition, \* edit.getTransport()'s position
    playButtonState, \* controlBarComponent's play button
    stopButtonState, \* controlBarComponent's stop button
    libraryItems,    \* the items of libraryProject, first at the top
    bpmEditor,       \* the BPM editor dialog
    buttonClicks,    \* history: clicks on the 1/2x and 2x buttons so far
    previousPlayState, \* history: playState before the last event
    chopOrigin       \* history: where the crossfader was when the last chop gesture
                     \* began, NoOrigin when that gesture was disturbed

vars == << now, chopStartTime, chopReleaseDelay, crossfader, gainTrack1, gainTrack2,
           volumeDb1, volumeDb2, baseTempo, liveTempo, trackOffset, timerInterval,
           timerDue, deferredPending, uiHeld, padHeld, chopState, lastOp,
           clip1, clip2, speedRatio, delayTempo, delayTime,
           leftX, leftY, flangerSpeed, flangerDepth, flangerWidth,
           rightX, rightY, phaserRate, phaserDepth, phaserFeedback,
           brakeValue, springActive, rightTrigger,
           track1Clips, track2Clips, playState, transportPlaying, transportPosition,
           playButtonState, stopButtonState, libraryItems, bpmEditor, buttonClicks,
           previousPlayState,
           chopOrigin >>

\* the clips of the two tracks
loadVars == << clip1, clip2, track1Clips, track2Clips >>

\* the transport and the control bar
transportVars == << playState, transportPlaying, transportPosition,
                    playButtonState, stopButtonState >>

\* the library
libraryVars == << libraryItems, bpmEditor, buttonClicks >>

\* everything but the library
playerVars == << now, chopStartTime, chopReleaseDelay, crossfader, gainTrack1, gainTrack2,
                 volumeDb1, volumeDb2, baseTempo, liveTempo, trackOffset, timerInterval,
                 timerDue, deferredPending, uiHeld, padHeld, chopState,
                 clip1, clip2, speedRatio, delayTempo, delayTime,
                 leftX, leftY, flangerSpeed, flangerDepth, flangerWidth,
                 rightX, rightY, phaserRate, phaserDepth, phaserFeedback,
                 brakeValue, springActive, rightTrigger,
                 track1Clips, track2Clips, playState, transportPlaying,
                 transportPosition, playButtonState, stopButtonState, chopOrigin >>

\* what a tempo change pushes to the thumbnail and to the delay
tempoVars == << speedRatio, delayTempo, delayTime >>

\* the two sticks, and the flanger and the phaser they drive
axisVars == << leftX, leftY, flangerSpeed, flangerDepth, flangerWidth,
               rightX, rightY, phaserRate, phaserDepth, phaserFeedback >>

\* chopOrigin when the last chop gesture was disturbed, or there was none
NoOrigin == 0 - 1

\* the vinyl brake
brakeVars == << brakeValue, springActive, rightTrigger >>

-----------------------------------------------------------------------------
(* Scales and program constants *)

\* a crossfader position of 1.0f
PosScale == 10000

\* a linear gain of 1.0f
GainScale == 10000

\* juce::MathConstants<float>::halfPi, at GainScale (1.5708 rad)
HalfPi == 15708

\* the decision boundary 0.5f of a chop toggle
Half == 5000

\* const float minDB = -60.0f
MinDB == -6000

\* juce::Decibels::gainToDecibels' default minus-infinity level, -100 dB
MinusInfinityDb == -10000

\* the volume of a VolumeAndPanPlugin nobody has set: 0 dB
DefaultVolumeDb == 0

\* the base tempo before any file is loaded
DefaultTempo == 120

\* startTimerHz (30): a period of 1000 / 30 ms
TimerHz == 30

\* a gamepad axis value of 1.0f
AxisScale == 10000

\* std::sqrt (2.0f), at AxisScale
SqrtTwo == 14142

\* the upper limit 0.99f of the flanger width, at AxisScale
MaxWidth == 9900

\* the upper limit 0.70f of the phaser feedback, at AxisScale
MaxFeedback == 7000

\* the threshold 0.01f of the right trigger, at AxisScale
TriggerThreshold == 100

\* static_cast<int> of +inf where the conversion saturates: INT_MAX ms, here
\* a period beyond any time the model reaches
IntMaxMs == 1000000

-----------------------------------------------------------------------------
(* Bounds of the model *)

\* the millisecond counter when the component is constructed
StartTime == 1000

\* the clock advances at most MaxAdvances times
MaxAdvances == 2

\* the clock advances by TimeStep
TimeStep == 300

\* the crossfader positions of SpecGain are k / NumPositions, k in 0..NumPositions
NumPositions == 128

\* the axis values of SpecAxis are k / NumAxisSteps, k in -NumAxisSteps..NumAxisSteps
NumAxisSteps == 2

\* a raw axis value beyond the range [-1, 1], at AxisScale
RawAxisValue == 15000

\* the transport position, in seconds, goes up to MaxPosition
MaxPosition == 3

\* the trigger values of SpecBrake are k / NumTriggerSteps, k in 0..NumTriggerSteps
NumTriggerSteps == 16

-----------------------------------------------------------------------------
(* Fixed-point arithmetic *)

\* a / b rounded to the nearest integer, b > 0
RoundDiv(a, b) == (2 * a + b) \div (2 * b)

Max(a, b) == IF a >= b THEN a ELSE b

\* the Horner step t -> 1 - x2 * t / k of a Taylor series in x2 = x^2
RECURSIVE Horner(_, _, _)
Horner(x2, ks, t) ==
    IF ks = << >> THEN t
    ELSE Horner(x2, Tail(ks), GainScale - RoundDiv(x2 * t, GainScale * Head(ks)))

\* std::cos (x), x in radians at GainScale
Cos(x) == Horner(RoundDiv(x * x, GainScale), << 90, 56, 30, 12, 2 >>, GainScale)

\* std::sin (x), x in radians at GainScale
Sin(x) ==
    RoundDiv(x * Horner(RoundDiv(x * x, GainScale), << 110, 72, 42, 20, 6 >>, GainScale),
             GainScale)

\* y doubled until it is in [GainScale, 2 GainScale): << y, number of doublings >>
RECURSIVE Normalise(_, _)
Normalise(y, k) == IF y >= GainScale THEN << y, k >> ELSE Normalise(2 * y, k + 1)

\* the fractional bits of log2 (y / GainScale), y in [GainScale, 2 GainScale),
\* by repeated squaring: the result in units of 2^-12
RECURSIVE Log2Frac(_, _, _)
Log2Frac(y, bits, acc) ==
    IF bits = 0 THEN acc
    ELSE LET sq == (y * y) \div GainScale
         IN  IF sq >= 2 * GainScale
             THEN Log2Frac(sq \div 2, bits - 1, 2 * acc + 1)
             ELSE Log2Frac(sq, bits - 1, 2 * acc)

\* log2 (g / GainScale) in units of 2^-12, for g > 0
Log2(g) ==
    LET n == Normalise(g, 0)
    IN  Log2Frac(n[1], 12, 0) - 4096 * n[2]

\* std::log10 (g) * 20 in centi-dB: 6.021 dB per octave
TwentyLog10(g) == RoundDiv(Log2(g) * 6021, 40960)

\* juce::Decibels::gainToDecibels (gain)
GainToDecibels(g) == IF g > 0 THEN Max(MinusInfinityDb, TwentyLog10(g)) ELSE MinusInfinityDb

-----------------------------------------------------------------------------
(* Doubles as exact fractions *)

RECURSIVE GCD(_, _)
GCD(a, b) == IF b = 0 THEN a ELSE GCD(b, a % b)

Abs(a) == IF a < 0 THEN 0 - a ELSE a

Sign(a) == IF a > 0 THEN 1 ELSE IF a < 0 THEN 0 - 1 ELSE 0

\* the fraction n / d in lowest terms, d >= 0
Norm(n, d) ==
    IF d = 0 THEN << Sign(n), 0 >>
    ELSE LET g == GCD(Abs(n), d) IN << n \div g, d \div g >>

Real(n) == << n, 1 >>

Inf == << 1, 0 >>

NaN == << 0, 0 >>

IsNaN(a) == a[1] = 0 /\ a[2] = 0

IsFinite(a) == a[2] # 0

RDiv(a, b) == Norm(a[1] * b[2], a[2] * b[1])

RMul(a, b) == Norm(a[1] * b[1], a[2] * b[2])

RSub(a, b) == Norm(a[1] * b[2] - b[1] * a[2], a[2] * b[2])

\* a >= b; false when either is NaN
RGe(a, b) == ~IsNaN(a) /\ ~IsNaN(b) /\ a[1] * b[2] >= b[1] * a[2]

\* a < b; false when either is NaN
RLt(a, b) == ~IsNaN(a) /\ ~IsNaN(b) /\ a[1] * b[2] < b[1] * a[2]

RPositive(a) == a[1] > 0

\* static_cast<int> (a): truncation for a finite value (none is negative
\* here); the conversion of a non-finite value is undefined, and yields
\* INT_MIN, or the saturated INT_MAX (+inf) or 0 (NaN)
CastToInt(a) ==
    IF IsFinite(a) THEN { a[1] \div a[2] }
    ELSE IF IsNaN(a) THEN { 0 - IntMaxMs, 0 }
    ELSE { 0 - IntMaxMs, IntMaxMs }

-----------------------------------------------------------------------------
(* updateCrossfader *)

\* std::cos (position * halfPi)
GainTrack1(position) == Cos(RoundDiv(position * HalfPi, PosScale))

\* a mutation of GainTrack2: a linear fade
GainTrack2Linear(position) == (position * GainScale) \div PosScale

\* std::sin (position * halfPi)
GainTrack2(position) == Sin(RoundDiv(position * HalfPi, PosScale))

\* a mutation of GainDB1: no floor for a gain <= 0
GainDB1NoFloor(position) == GainToDecibels(GainTrack1(position))

GainDB1(position) ==
    IF GainTrack1(position) <= 0 THEN MinDB ELSE GainToDecibels(GainTrack1(position))

GainDB2(position) ==
    IF GainTrack2(position) <= 0 THEN MinDB ELSE GainToDecibels(GainTrack2(position))

\* setTrackVolume (trackIndex, gainDB); both VolumeAndPan plugins exist
SetTrackVolume(trackIndex, gainDB) ==
    IF trackIndex = 0 THEN volumeDb1' = gainDB
    ELSE IF trackIndex = 1 THEN volumeDb2' = gainDB
    ELSE TRUE

\* a mutation of UpdateCrossfader: the two track indices exchanged
UpdateCrossfaderSwapped(position) ==
    /\ gainTrack1' = GainTrack1(position)
    /\ gainTrack2' = GainTrack2(position)
    /\ SetTrackVolume(1, GainDB1(position))
    /\ SetTrackVolume(0, GainDB2(position))

\* updateCrossfader(), reading the crossfader value position
UpdateCrossfader(position) ==
    /\ gainTrack1' = GainTrack1(position)
    /\ gainTrack2' = GainTrack2(position)
    /\ SetTrackVolume(0, GainDB1(position))
    /\ SetTrackVolume(1, GainDB2(position))

\* chopComponent->onCrossfaderValueChanged
OnCrossfaderValueChanged(value) == UpdateCrossfader(value)

\* chopComponent->setCrossfaderValue (value): the value is stored and the
\* change is notified at once
SetCrossfaderValue(value) ==
    /\ crossfader' = value
    /\ OnCrossfaderValueChanged(value)

\* a mutation of ChopTarget: the toggle adds a full throw to the position
ChopTargetAdded(currentPosition) ==
    IF currentPosition <= Half THEN currentPosition + PosScale ELSE 0

\* a mutation of ChopTarget: currentPosition < 0.5f
ChopTargetStrict(currentPosition) == IF currentPosition < Half THEN PosScale ELSE 0

\* currentPosition <= 0.5f ? 1.0f : 0.0f
ChopTarget(currentPosition) == IF currentPosition <= Half THEN PosScale ELSE 0

-----------------------------------------------------------------------------
(* Tempo *)

\* a mutation of QuarterNoteMs: the duration of a beat in seconds
QuarterNoteSeconds(tempo) == RDiv(Real(60), tempo)

\* (60.0 / tempo) * 1000.0
QuarterNoteMs(tempo) == RMul(RDiv(Real(60), tempo), Real(1000))

\* chopComponent->getChopDurationInMs (tempo)
GetChopDurationInMs(tempo) == QuarterNoteMs(tempo)

\* a mutation of SpeedRatio: the ratio of the live tempo to the base tempo
SpeedRatioLiveOverBase(base, newBpm) == RDiv(newBpm, base)

\* updateTempo: const double ratio = baseTempo / newBpm
SpeedRatio(base, newBpm) == RDiv(base, newBpm)

\* delayComponent->setDelayTime (ms)
SetDelayTime(ms) == delayTime' = ms

\* delayComponent->setTempo (tempo): the delay holds the tempo and takes the
\* quarter note at that tempo as its delay time
DelaySetTempo(tempo) ==
    /\ delayTempo' = tempo
    /\ delayTime' = QuarterNoteMs(tempo)

\* a mutation of UpdateTempo: the delay is driven with the base tempo
UpdateTempoBase(base, newBpm) ==
    /\ speedRatio' = SpeedRatio(base, newBpm)
    /\ DelaySetTempo(base)

\* updateTempo(), with baseTempo = base and screwComponent->getTempo() = newBpm
UpdateTempo(base, newBpm) ==
    /\ speedRatio' = SpeedRatio(base, newBpm)
    /\ DelaySetTempo(newBpm)

-----------------------------------------------------------------------------
(* Transport *)

\* a mutation of TransportStop: the transport is left as it is
TransportStopSkipped(playing) == playing

\* edit.getTransport().stop (...): whatever the transport did, it plays no more
TransportStop(playing) == FALSE

\* EngineHelpers::togglePlay (edit): a playing transport stops, a stopped one plays
TogglePlay(playing) == ~playing

\* a mutation of PlayFrom: the buttons show the opposite of the transport
PlayFromButtonsSwapped(playing) ==
    LET isPlaying == TogglePlay(playing)
    IN  /\ transportPlaying' = isPlaying
        /\ playButtonState' = ~isPlaying
        /\ stopButtonState' = isPlaying
        /\ playState' = (IF isPlaying THEN "Playing" ELSE "Stopped")

\* play(), called when the transport's playing state is playing
PlayFrom(playing) ==
    LET isPlaying == TogglePlay(playing)
    IN  /\ transportPlaying' = isPlaying
        /\ playButtonState' = isPlaying
        /\ stopButtonState' = ~isPlaying
        /\ playState' = (IF isPlaying THEN "Playing" ELSE "Stopped")

\* no BPM editor dialog is open
NoEditor == [ open |-> FALSE, item |-> "", text |-> 0 ]

-----------------------------------------------------------------------------
(* Clips *)

\* a mutation of RemoveAllClips: the clips stay
RemoveAllClipsSkipped(clips) == clips

\* EngineHelpers::removeAllClips (track)
RemoveAllClips(clips) == { }

\* a track without a clip
NoClip == [ file |-> "", start |-> Real(0), length |-> Real(0), offset |-> Real(0) ]

\* audioFile.getLength(), in seconds
AudioLength(file) == IF file = "a.wav" THEN Real(180) ELSE Real(240)

\* track1->insertWaveClip (name, file, { { {}, length }, {} }, true)
Clip1(file) ==
    [ file |-> file, start |-> Real(0), length |-> AudioLength(file), offset |-> Real(0) ]

\* a mutation of Clip2: the offset shifts the clip on the timeline
Clip2Shifted(file, offsetMs) ==
    [ file |-> file, start |-> RDiv(offsetMs, Real(1000)),
      length |-> AudioLength(file), offset |-> Real(0) ]

\* track2->insertWaveClip (name, file, { { 0 s, length }, trackOffset / 1000.0 }, true)
Clip2(file, offsetMs) ==
    [ file |-> file, start |-> Real(0), length |-> AudioLength(file),
      offset |-> RDiv(offsetMs, Real(1000)) ]

-----------------------------------------------------------------------------
(* juce::Timer *)

\* startTimer (intervalInMilliseconds): the one timer of the component is
\* (re)started with the new period, which is at least 1 ms
StartTimer(interval) ==
    /\ timerInterval' = Max(1, interval)
    /\ timerDue' = now + Max(1, interval)

-----------------------------------------------------------------------------
(* Inputs *)

\* the crossfader positions a user gesture sets in Spec
UserPositions == { 0, Half, PosScale }

\* the crossfader positions of SpecGain
GainPositions ==
    { (k * PosScale) \div NumPositions : k \in 0 .. NumPositions }
        \cup { 0, 1, Half, PosScale - 1, PosScale }

\* the audio files the user selects
Files == { "a.wav", "b.wav", "c.wav" }

\* what else the user selects: a file that is not there, and one that is not audio
BadFiles == { "missing.wav", "notes.txt" }

\* file.existsAsFile()
ExistsAsFile(file) == file # "missing.wav"

\* audioFile.isValid()
IsValidAudio(file) == file \in Files

\* libraryComponent->getBPMForFile (file): the "bpm" property of the file's
\* library item, which is 0 when the item has none
GetBPMForFile(file) ==
    IF file = "a.wav" THEN 120 ELSE IF file = "b.wav" THEN 100 ELSE 0

\* what getBPMForFile returns for the files
BpmValues == { GetBPMForFile(file) : file \in Files }

\* the tempos the user sets on the screw component
TempoValues == { 150 }

\* the axes of the two sticks, the left trigger and an id the switch does not name
AxisIds == { "LEFTX", "LEFTY", "RIGHTX", "RIGHTY", "LEFT_TRIGGER", "UNKNOWN" }

\* the values of an axis, in [-1, 1]
AxisValues == { (k * AxisScale) \div NumAxisSteps : k \in (0 - NumAxisSteps) .. NumAxisSteps }

\* the values an axis event carries: nothing clamps them to [-1, 1]
RawAxisValues == AxisValues \cup { 0 - RawAxisValue, RawAxisValue }

\* the values of the right trigger, in [0, 1]
TriggerValues ==
    { (k * AxisScale) \div NumTriggerSteps : k \in 0 .. NumTriggerSteps }
        \cup { TriggerThreshold - 1, TriggerThreshold }

-----------------------------------------------------------------------------
(* The state after construction *)

Init ==
    /\ now = StartTime
    /\ chopStartTime = 0
    /\ chopReleaseDelay = Real(0)
    /\ crossfader = 0
    /\ gainTrack1 = GainScale
    /\ gainTrack2 = 0
    /\ volumeDb1 = DefaultVolumeDb
    /\ volumeDb2 = DefaultVolumeDb
    /\ baseTempo = Real(DefaultTempo)
    /\ liveTempo = Real(DefaultTempo)
    /\ trackOffset = Real(0)
    /\ timerInterval = 1000 \div TimerHz
    /\ timerDue = StartTime + 1000 \div TimerHz
    /\ deferredPending = FALSE
    /\ uiHeld = FALSE
    /\ padHeld = FALSE
    /\ chopState = "Idle"
    /\ lastOp = "init"
    /\ clip1 = NoClip
    /\ clip2 = NoClip
    /\ speedRatio = Real(1)
    /\ delayTempo = Real(DefaultTempo)
    /\ delayTime = QuarterNoteMs(Real(DefaultTempo))
    /\ leftX = 0
    /\ leftY = 0
    /\ flangerSpeed = 0
    /\ flangerDepth = 0
    /\ flangerWidth = 0
    /\ rightX = 0
    /\ rightY = 0
    /\ phaserRate = 0
    /\ phaserDepth = 0
    /\ phaserFeedback = 0
    /\ brakeValue = 0
    /\ springActive = FALSE
    /\ rightTrigger = 0
    /\ chopOrigin = NoOrigin
    /\ track1Clips = { }
    /\ track2Clips = { }
    /\ playState = "Stopped"
    /\ previousPlayState = "Stopped"
    /\ transportPlaying = FALSE
    /\ transportPosition = 0
    /\ playButtonState = FALSE
    /\ stopButtonState = FALSE
    /\ libraryItems = << >>
    /\ bpmEditor = NoEditor
    /\ buttonClicks = 0

-----------------------------------------------------------------------------
(* Chop *)

\* the four lines both press handlers share
ChopPress ==
    /\ chopStartTime' = now
    /\ SetCrossfaderValue(ChopTarget(crossfader))
    /\ chopState' = "Pressed"
    /\ UNCHANGED << now, chopReleaseDelay, baseTempo, liveTempo, trackOffset,
                    timerInterval, timerDue, deferredPending >>

\* a mutation of HeldLongEnough: elapsedTime > minimumTime
HeldLongEnoughStrict(elapsedTime, minimumTime) ==
    RGe(elapsedTime, minimumTime) /\ elapsedTime # minimumTime

\* if (elapsedTime >= minimumTime)
HeldLongEnough(elapsedTime, minimumTime) == RGe(elapsedTime, minimumTime)

\* a mutation of ChopRelease: a late release puts the crossfader on deck A
ChopReleaseToDeckA(minimumTime) ==
    LET elapsedTime == Real(now - chopStartTime)
    IN  /\ IF HeldLongEnough(elapsedTime, minimumTime)
           THEN /\ SetCrossfaderValue(0)
                /\ chopState' = "Idle"
                /\ UNCHANGED << chopReleaseDelay, timerInterval, timerDue, deferredPending >>
           ELSE /\ chopReleaseDelay' = RSub(minimumTime, elapsedTime)
                /\ \E interval \in CastToInt(RSub(minimumTime, elapsedTime)) :
                       StartTimer(interval)
                /\ deferredPending' = TRUE
                /\ chopState' = "PendingRelease"
                /\ UNCHANGED << crossfader, gainTrack1, gainTrack2, volumeDb1, volumeDb2 >>
        /\ UNCHANGED << now, chopStartTime, baseTempo, liveTempo, trackOffset >>

\* the body both release handlers share, given their minimumTime
ChopRelease(minimumTime) ==
    LET elapsedTime == Real(now - chopStartTime)
    IN  /\ IF HeldLongEnough(elapsedTime, minimumTime)
           THEN /\ SetCrossfaderValue(ChopTarget(crossfader))
                /\ chopState' = "Idle"
                /\ UNCHANGED << chopReleaseDelay, timerInterval, timerDue, deferredPending >>
           ELSE /\ chopReleaseDelay' = RSub(minimumTime, elapsedTime)
                /\ \E interval \in CastToInt(RSub(minimumTime, elapsedTime)) :
                       StartTimer(interval)
                /\ deferredPending' = TRUE
                /\ chopState' = "PendingRelease"
                /\ UNCHANGED << crossfader, gainTrack1, gainTrack2, volumeDb1, volumeDb2 >>
        /\ UNCHANGED << now, chopStartTime, baseTempo, liveTempo, trackOffset >>

\* chopComponent->onChopButtonPressed
OnChopButtonPressed ==
    /\ ~uiHeld
    /\ ChopPress
    /\ uiHeld' = TRUE
    /\ lastOp' = "pressUI"
    /\ previousPlayState' = playState
    /\ chopOrigin' = (IF chopState = "Idle" /\ ~deferredPending /\ crossfader \in { 0, PosScale }
                      THEN crossfader ELSE NoOrigin)
    /\ UNCHANGED padHeld
    /\ UNCHANGED << loadVars, tempoVars, axisVars, brakeVars, transportVars, libraryVars >>

\* chopComponent->onChopButtonReleased
OnChopButtonReleased ==
    /\ uiHeld
    /\ ChopRelease(GetChopDurationInMs(liveTempo))
    /\ uiHeld' = FALSE
    /\ lastOp' = "releaseUI"
    /\ previousPlayState' = playState
    /\ chopOrigin' = (IF chopState = "Pressed" THEN chopOrigin ELSE NoOrigin)
    /\ UNCHANGED padHeld
    /\ UNCHANGED << loadVars, tempoVars, axisVars, brakeVars, transportVars, libraryVars >>

\* gamepadButtonPressed (SDL_GAMEPAD_BUTTON_SOUTH)
GamepadButtonPressed ==
    /\ ~padHeld
    /\ ChopPress
    /\ padHeld' = TRUE
    /\ lastOp' = "pressPad"
    /\ previousPlayState' = playState
    /\ chopOrigin' = (IF chopState = "Idle" /\ ~deferredPending /\ crossfader \in { 0, PosScale }
                      THEN crossfader ELSE NoOrigin)
    /\ UNCHANGED uiHeld
    /\ UNCHANGED << loadVars, tempoVars, axisVars, brakeVars, transportVars, libraryVars >>

\* gamepadButtonReleased (SDL_GAMEPAD_BUTTON_SOUTH)
GamepadButtonReleased ==
    /\ padHeld
    /\ ChopRelease(trackOffset)
    /\ padHeld' = FALSE
    /\ lastOp' = "releasePad"
    /\ previousPlayState' = playState
    /\ chopOrigin' = (IF chopState = "Pressed" THEN chopOrigin ELSE NoOrigin)
    /\ UNCHANGED uiHeld
    /\ UNCHANGED << loadVars, tempoVars, axisVars, brakeVars, transportVars, libraryVars >>

\* timerCallback: a pending deferred chop release toggles the crossfader,
\* once; any other firing is the periodic tick
TimerCallback ==
    /\ now >= timerDue
    /\ timerDue' = now + timerInterval
    /\ IF deferredPending
       THEN /\ SetCrossfaderValue(ChopTarget(crossfader))
            /\ deferredPending' = FALSE
            /\ chopState' = "Idle"
            /\ lastOp' = "deferredRelease"
            /\ previousPlayState' = playState
            /\ chopOrigin' = (IF chopState = "PendingRelease" THEN chopOrigin ELSE NoOrigin)
       ELSE /\ lastOp' = "tick"
            /\ previousPlayState' = playState
            /\ UNCHANGED chopOrigin
            /\ UNCHANGED << crossfader, gainTrack1, gainTrack2, volumeDb1, volumeDb2,
                            deferredPending, chopState >>
    /\ UNCHANGED << now, chopStartTime, chopReleaseDelay, baseTempo, liveTempo,
                    trackOffset, timerInterval, uiHeld, padHeld >>
    /\ UNCHANGED << loadVars, tempoVars, axisVars, brakeVars, transportVars, libraryVars >>

\* the user moves the crossfader: the slider takes the value and notifies it
CrossfaderMoved ==
    /\ \E value \in UserPositions : SetCrossfaderValue(value)
    /\ lastOp' = "crossfaderMoved"
    /\ previousPlayState' = playState
    /\ chopOrigin' = NoOrigin
    /\ UNCHANGED << now, chopStartTime, chopReleaseDelay, baseTempo, liveTempo,
                    trackOffset, timerInterval, timerDue, deferredPending, uiHeld,
                    padHeld, chopState >>
    /\ UNCHANGED << loadVars, tempoVars, axisVars, brakeVars, transportVars, libraryVars >>

-----------------------------------------------------------------------------
(* Tempo and file load *)

\* handleFileSelection (file), for a file that exists and is valid audio;
\* detectedBPM is what getBPMForFile returns for it
\* a mutation of RejectLoad: the tracks are cleared before the file is looked at
RejectLoadAfterClear ==
    /\ track1Clips' = { }
    /\ track2Clips' = { }
    /\ UNCHANGED << clip1, clip2 >>
    /\ UNCHANGED << now, chopStartTime, chopReleaseDelay, crossfader, gainTrack1, gainTrack2,
                    volumeDb1, volumeDb2, baseTempo, liveTempo, trackOffset, timerInterval,
                    timerDue, deferredPending, uiHeld, padHeld, chopState, chopOrigin >>
    /\ UNCHANGED << tempoVars, axisVars, brakeVars, transportVars, libraryVars >>

\* the three early returns of handleFileSelection (lines 340-352)
RejectLoad ==
    /\ UNCHANGED << now, chopStartTime, chopReleaseDelay, crossfader, gainTrack1, gainTrack2,
                    volumeDb1, volumeDb2, baseTempo, liveTempo, trackOffset, timerInterval,
                    timerDue, deferredPending, uiHeld, padHeld, chopState, chopOrigin >>
    /\ UNCHANGED << loadVars, tempoVars, axisVars, brakeVars, transportVars, libraryVars >>

\* handleFileSelection (file); detectedBPM is what getBPMForFile returns for
\* the file, tracksAvailable says that getOrInsertAudioTrackAt finds both tracks.
\* The delay time (line 419) and the speed ratio (line 430) the load pushes
\* first are replaced by those of the updateTempo() that ends it (line 438);
\* the transport is stopped (lines 405, 427) when play() is reached (line 444).
HandleFileSelection(file, detectedBPM, tracksAvailable) ==
    IF ~ExistsAsFile(file) \/ ~IsValidAudio(file) \/ ~tracksAvailable
    THEN /\ RejectLoad
         /\ lastOp' = "loadRejected"
         /\ previousPlayState' = playState
    ELSE LET newBase      == Real(detectedBPM)
             currentRatio == RDiv(liveTempo, newBase)
             newTempo     == RMul(newBase, currentRatio)
         IN  /\ baseTempo' = newBase
             /\ clip1' = Clip1(file)
             /\ track1Clips' = RemoveAllClips(track1Clips) \cup { Clip1(file) }
             /\ trackOffset' = QuarterNoteMs(newBase)
             /\ clip2' = Clip2(file, QuarterNoteMs(newBase))
             /\ track2Clips' = RemoveAllClips(track2Clips)
                                   \cup { Clip2(file, QuarterNoteMs(newBase)) }
             /\ liveTempo' = newTempo
             /\ SetCrossfaderValue(0)
             /\ UpdateTempo(newBase, newTempo)
             /\ transportPosition' = 0
             /\ PlayFrom(TransportStop(transportPlaying))
             /\ lastOp' = "load"
             /\ previousPlayState' = playState
             /\ chopOrigin' = NoOrigin
             /\ UNCHANGED << now, chopStartTime, chopReleaseDelay, timerInterval, timerDue,
                             deferredPending, uiHeld, padHeld, chopState >>
             /\ UNCHANGED << axisVars, brakeVars, libraryVars >>

\* play(): the play button of the control bar
Play ==
    /\ PlayFrom(transportPlaying)
    /\ lastOp' = "play"
    /\ previousPlayState' = playState
    /\ UNCHANGED << now, chopStartTime, chopReleaseDelay, crossfader, gainTrack1, gainTrack2,
                    volumeDb1, volumeDb2, baseTempo, liveTempo, trackOffset, timerInterval,
                    timerDue, deferredPending, uiHeld, padHeld, chopState, chopOrigin,
                    transportPosition >>
    /\ UNCHANGED << loadVars, tempoVars, axisVars, brakeVars, libraryVars >>

\* stop(): the stop button of the control bar; togglePlay (returning to the
\* start when it stops the transport), then the transport is stopped and rewound
Stop ==
    /\ transportPlaying' = TransportStop(TogglePlay(transportPlaying))
    /\ transportPosition' = 0
    /\ playState' = "Stopped"
    /\ playButtonState' = FALSE
    /\ stopButtonState' = TRUE
    /\ lastOp' = "stop"
    /\ previousPlayState' = playState
    /\ UNCHANGED << now, chopStartTime, chopReleaseDelay, crossfader, gainTrack1, gainTrack2,
                    volumeDb1, volumeDb2, baseTempo, liveTempo, trackOffset, timerInterval,
                    timerDue, deferredPending, uiHeld, padHeld, chopState, chopOrigin >>
    /\ UNCHANGED << loadVars, tempoVars, axisVars, brakeVars, libraryVars >>

\* the transport plays on: its position moves
TransportAdvances ==
    /\ transportPlaying
    /\ transportPosition < MaxPosition
    /\ transportPosition' = transportPosition + 1
    /\ lastOp' = "playing"
    /\ previousPlayState' = playState
    /\ UNCHANGED << now, chopStartTime, chopReleaseDelay, crossfader, gainTrack1, gainTrack2,
                    volumeDb1, volumeDb2, baseTempo, liveTempo, trackOffset, timerInterval,
                    timerDue, deferredPending, uiHeld, padHeld, chopState, chopOrigin,
                    playState, transportPlaying, playButtonState, stopButtonState >>
    /\ UNCHANGED << loadVars, tempoVars, axisVars, brakeVars, libraryVars >>

\* screwComponent->onTempoChanged (tempo): the screw component holds the new tempo
OnTempoChanged(tempo) ==
    /\ liveTempo' = Real(tempo)
    /\ UpdateTempo(baseTempo, Real(tempo))
    /\ lastOp' = "tempoChanged"
    /\ previousPlayState' = playState
    /\ chopOrigin' = NoOrigin
    /\ UNCHANGED << now, chopStartTime, chopReleaseDelay, crossfader, gainTrack1,
                    gainTrack2, volumeDb1, volumeDb2, baseTempo, trackOffset,
                    timerInterval, timerDue, deferredPending, uiHeld, padHeld, chopState >>
    /\ UNCHANGED << loadVars, axisVars, brakeVars, transportVars, libraryVars >>

-----------------------------------------------------------------------------
(* Gamepad axes *)

\* the largest r in lo .. hi with r * r <= n
RECURSIVE SqrtBetween(_, _, _)
SqrtBetween(n, lo, hi) ==
    IF lo >= hi THEN lo
    ELSE LET mid == (lo + hi + 1) \div 2
         IN  IF mid * mid <= n THEN SqrtBetween(n, mid, hi) ELSE SqrtBetween(n, lo, mid - 1)

\* std::sqrt (x * x + y * y), x and y at AxisScale
Distance(x, y) ==
    LET n == x * x + y * y
        r == SqrtBetween(n, 0, 3 * AxisScale)
    IN  IF n - r * r <= r THEN r ELSE r + 1

\* juce::jlimit (lower, upper, value)
JLimit(lower, upper, value) ==
    IF value < lower THEN lower ELSE IF upper < value THEN upper ELSE value

\* a mutation of FlangerWidth: the normalised distance is not squared
FlangerWidthLinear(x, y) ==
    JLimit(0, MaxWidth, RoundDiv(Distance(x, y) * AxisScale, SqrtTwo))

\* the width of the flanger for the stick at (x, y)
FlangerWidth(x, y) ==
    LET distance           == Distance(x, y)
        normalizedDistance == RoundDiv(distance * AxisScale, SqrtTwo)
        curvedWidth        == RoundDiv(normalizedDistance * normalizedDistance, AxisScale)
    IN  JLimit(0, MaxWidth, curvedWidth)

\* a mutation of PhaserFeedback: the distance is not limited
PhaserFeedbackUnlimited(x, y) == Distance(x, y)

\* juce::jlimit (0.0f, 0.70f, distance), for the stick at (x, y)
PhaserFeedback(x, y) == JLimit(0, MaxFeedback, Distance(x, y))

\* case SDL_GAMEPAD_AXIS_LEFTX / SDL_GAMEPAD_AXIS_LEFTY
LeftStickMoved(axisId, value) ==
    /\ IF axisId = "LEFTX"
       THEN /\ leftX' = value
            /\ flangerSpeed' = value * 10
            /\ flangerWidth' = FlangerWidth(value, leftY)
            /\ UNCHANGED << leftY, flangerDepth >>
       ELSE /\ leftY' = value
            /\ flangerDepth' = value * 10
            /\ flangerWidth' = FlangerWidth(leftX, value)
            /\ UNCHANGED << leftX, flangerSpeed >>
    /\ UNCHANGED << rightX, rightY, phaserRate, phaserDepth, phaserFeedback >>
    /\ UNCHANGED brakeVars

\* a mutation of RightStickMoved: the X branch stores the value in leftX
RightStickMovedStoresLeft(axisId, value) ==
    /\ IF axisId = "RIGHTX"
       THEN /\ leftX' = value
            /\ phaserRate' = value * 10
            /\ phaserFeedback' = PhaserFeedback(value, rightY)
            /\ UNCHANGED << rightX, rightY, phaserDepth >>
       ELSE /\ rightY' = value
            /\ phaserDepth' = value * 10
            /\ phaserFeedback' = PhaserFeedback(rightX, value)
            /\ UNCHANGED << leftX, rightX, phaserRate >>
    /\ UNCHANGED << leftY, flangerSpeed, flangerDepth, flangerWidth >>
    /\ UNCHANGED brakeVars

\* case SDL_GAMEPAD_AXIS_RIGHTX / SDL_GAMEPAD_AXIS_RIGHTY
RightStickMoved(axisId, value) ==
    /\ IF axisId = "RIGHTX"
       THEN /\ rightX' = value
            /\ phaserRate' = value * 10
            /\ phaserFeedback' = PhaserFeedback(value, rightY)
            /\ UNCHANGED << rightY, phaserDepth >>
       ELSE /\ rightY' = value
            /\ phaserDepth' = value * 10
            /\ phaserFeedback' = PhaserFeedback(rightX, value)
            /\ UNCHANGED << rightX, phaserRate >>
    /\ UNCHANGED << leftX, leftY, flangerSpeed, flangerDepth, flangerWidth >>
    /\ UNCHANGED brakeVars

\* vinylBrakeComponent->setBrakeValue (value)
SetBrakeValue(value) ==
    /\ brakeValue' = value
    /\ UNCHANGED springActive

\* vinylBrakeComponent->startSpringAnimation()
StartSpringAnimation ==
    /\ springActive' = TRUE
    /\ UNCHANGED brakeValue

\* a mutation of RightTriggerMoved: the value is always set directly
RightTriggerMovedDirect(value) ==
    /\ SetBrakeValue(value)
    /\ rightTrigger' = value
    /\ UNCHANGED axisVars

\* case SDL_GAMEPAD_AXIS_RIGHT_TRIGGER
RightTriggerMoved(value) ==
    /\ IF value < TriggerThreshold /\ brakeValue > 0
       THEN StartSpringAnimation
       ELSE SetBrakeValue(value)
    /\ rightTrigger' = value
    /\ UNCHANGED axisVars

\* gamepadAxisMoved (axisId, value)
GamepadAxisMoved(axisId, value) ==
    /\ CASE axisId = "RIGHT_TRIGGER"         -> RightTriggerMoved(value)
         [] axisId \in { "LEFTX", "LEFTY" }   -> LeftStickMoved(axisId, value)
         [] axisId \in { "RIGHTX", "RIGHTY" } -> RightStickMoved(axisId, value)
         [] OTHER                             -> UNCHANGED << axisVars, brakeVars >>
    /\ lastOp' = axisId
    /\ previousPlayState' = playState
    /\ UNCHANGED chopOrigin
    /\ UNCHANGED << now, chopStartTime, chopReleaseDelay, crossfader, gainTrack1,
                    gainTrack2, volumeDb1, volumeDb2, baseTempo, liveTempo, trackOffset,
                    timerInterval, timerDue, deferredPending, uiHeld, padHeld, chopState >>
    /\ UNCHANGED << loadVars, tempoVars, transportVars, libraryVars >>

\* the spring animation of the vinyl brake moves the brake value towards 0,
\* and ends when it is there
SpringAnimationStep ==
    /\ springActive
    /\ brakeValue' = brakeValue \div 2
    /\ springActive' = (brakeValue \div 2 > 0)
    /\ lastOp' = "spring"
    /\ previousPlayState' = playState
    /\ UNCHANGED chopOrigin
    /\ UNCHANGED << now, chopStartTime, chopReleaseDelay, crossfader, gainTrack1,
                    gainTrack2, volumeDb1, volumeDb2, baseTempo, liveTempo, trackOffset,
                    timerInterval, timerDue, deferredPending, uiHeld, padHeld, chopState >>
    /\ UNCHANGED << loadVars, tempoVars, axisVars, rightTrigger, transportVars, libraryVars >>

-----------------------------------------------------------------------------
(* Time *)

\* the clock moves on by TimeStep; a timer that is due fires before it does
AdvanceTime ==
    /\ now < StartTime + MaxAdvances * TimeStep
    /\ now < timerDue
    /\ now' = now + TimeStep
    /\ lastOp' = "advance"
    /\ previousPlayState' = playState
    /\ UNCHANGED chopOrigin
    /\ UNCHANGED << chopStartTime, chopReleaseDelay, crossfader, gainTrack1, gainTrack2,
                    volumeDb1, volumeDb2, baseTempo, liveTempo, trackOffset,
                    timerInterval, timerDue, deferredPending, uiHeld, padHeld, chopState >>
    /\ UNCHANGED << loadVars, tempoVars, axisVars, brakeVars, transportVars, libraryVars >>

-----------------------------------------------------------------------------
(* Specifications *)

Next ==
    \/ OnChopButtonPressed
    \/ OnChopButtonReleased
    \/ GamepadButtonPressed
    \/ GamepadButtonReleased
    \/ TimerCallback
    \/ CrossfaderMoved
    \/ \E file \in Files \cup BadFiles, tracksAvailable \in BOOLEAN :
           HandleFileSelection(file, GetBPMForFile(file), tracksAvailable)
    \/ \E tempo \in TempoValues : OnTempoChanged(tempo)
    \/ AdvanceTime

Spec == Init /\ [][Next]_vars

\* the user moves the crossfader to any position of GainPositions
CrossfaderMovedAnywhere ==
    /\ \E value \in GainPositions : SetCrossfaderValue(value)
    /\ lastOp' = "crossfaderMoved"
    /\ previousPlayState' = playState
    /\ chopOrigin' = NoOrigin
    /\ UNCHANGED << now, chopStartTime, chopReleaseDelay, baseTempo, liveTempo,
                    trackOffset, timerInterval, timerDue, deferredPending, uiHeld,
                    padHeld, chopState >>
    /\ UNCHANGED << loadVars, tempoVars, axisVars, brakeVars, transportVars, libraryVars >>

\* a mutation of UpdateCrossfaderCalled: the volumes move half the way from
\* where they are to where the position puts them
UpdateCrossfaderSmoothed ==
    /\ gainTrack1' = GainTrack1(crossfader)
    /\ gainTrack2' = GainTrack2(crossfader)
    /\ volumeDb1' = (volumeDb1 + GainDB1(crossfader)) \div 2
    /\ volumeDb2' = (volumeDb2 + GainDB2(crossfader)) \div 2
    /\ lastOp' = "updateCrossfader"
    /\ previousPlayState' = playState
    /\ UNCHANGED chopOrigin
    /\ UNCHANGED << now, chopStartTime, chopReleaseDelay, crossfader, baseTempo, liveTempo,
                    trackOffset, timerInterval, timerDue, deferredPending, uiHeld,
                    padHeld, chopState >>
    /\ UNCHANGED << loadVars, tempoVars, axisVars, brakeVars, transportVars, libraryVars >>

\* updateCrossfader() is called again, the crossfader where it was
UpdateCrossfaderCalled ==
    /\ UpdateCrossfader(crossfader)
    /\ lastOp' = "updateCrossfader"
    /\ previousPlayState' = playState
    /\ UNCHANGED chopOrigin
    /\ UNCHANGED << now, chopStartTime, chopReleaseDelay, crossfader, baseTempo, liveTempo,
                    trackOffset, timerInterval, timerDue, deferredPending, uiHeld,
                    padHeld, chopState >>
    /\ UNCHANGED << loadVars, tempoVars, axisVars, brakeVars, transportVars, libraryVars >>

NextGain ==
    \/ CrossfaderMovedAnywhere
    \/ UpdateCrossfaderCalled

\* the gain computation alone, over the positions of GainPositions
SpecGain == Init /\ [][NextGain]_vars

NextTransport ==
    \/ \E file \in Files \cup BadFiles, tracksAvailable \in BOOLEAN :
           HandleFileSelection(file, GetBPMForFile(file), tracksAvailable)
    \/ Play
    \/ Stop
    \/ TransportAdvances
    \/ \E tempo \in TempoValues : OnTempoChanged(tempo)

\* loading, playing and stopping alone
SpecTransport == Init /\ [][NextTransport]_vars

NextAxis == \E axisId \in AxisIds, value \in RawAxisValues : GamepadAxisMoved(axisId, value)

\* the sticks alone, over the values of RawAxisValues
SpecAxis == Init /\ [][NextAxis]_vars

NextBrake ==
    \/ \E value \in TriggerValues : GamepadAxisMoved("RIGHT_TRIGGER", value)
    \/ SpringAnimationStep

\* the right trigger and the vinyl brake alone
SpecBrake == Init /\ [][NextBrake]_vars

-----------------------------------------------------------------------------
(* The library.  A BPM of 1.0 is BpmScale; the text of the BPM editor is   *)
(* held as the number it reads as.                                         *)

\* 1 BPM, in the library
BpmScale == 10000

\* float detectedBPM = 120.0f, and the 120.0f the editor opens with
DefaultBpm == 1200000

\* one decimal place, of juce::String (value, 1); the 0.1f of addToLibrary
TenthBpm == 1000

\* the 1/2x and 2x buttons are clicked at most MaxClicks times
MaxClicks == 3

\* the 2x button is clicked while the text is at most MaxEditorBpm BPM
MaxEditorBpm == 240

\* the files the user adds to the library
LibraryFiles == { "a.wav", "b.wav", "missing.wav", "notes.txt" }

\* formatManager.findFormatForFileExtension (file.getFileExtension()) != nullptr
SupportedFormat(file) == file # "notes.txt"

\* what bpmDetector.estimateTempo() returns
DetectionResults == { 0 - 60 * BpmScale, 0, 875000, 1200500 }

\* what the user types into the editor: at most 6 of the characters 0123456789.
TypedTexts == { 0, 1, 500, 875000 }

\* a mutation of DetectedBpm: the detection result is taken as it is
DetectedBpmUnchecked(tempBPM) == tempBPM

\* float detectedBPM = 120.0f; if (tempBPM > 0) detectedBPM = tempBPM;
DetectedBpm(tempBPM) == IF tempBPM > 0 THEN tempBPM ELSE DefaultBpm

\* juce::String (n / d, 1): the texts with one decimal place the value n / d
\* can be written as; a value half way between two of them goes either way
StringOneDecimal(n, d) ==
    LET t == TenthBpm * d
        q == n \div t
        r == n % t
    IN  IF 2 * r < t THEN { q * TenthBpm }
        ELSE IF 2 * r > t THEN { (q + 1) * TenthBpm }
        ELSE { q * TenthBpm, (q + 1) * TenthBpm }

\* libraryProject->getProjectItemForFile (file) != nullptr
HasItem(items, file) == \E i \in 1..Len(items) : items[i].file = file

\* the row of the item of file
RowOf(items, file) == CHOOSE i \in 1..Len(items) : items[i].file = file

\* item->setNamedProperty ("bpm", juce::String (bpm)), on the item of file
SetBpm(items, file, bpm) ==
    [ i \in 1..Len(items) |->
        IF items[i].file = file THEN [ items[i] EXCEPT !.bpm = bpm ] ELSE items[i] ]

\* the items without the one at row index
RemoveItem(items, index) ==
    [ i \in 1..(Len(items) - 1) |-> IF i < index THEN items[i] ELSE items[i + 1] ]

\* addToLibrary (file).  projectUsable: libraryProject is there, valid and not
\* read-only; readable: createReaderFor gives a reader; tempBPM: the
\* detection result; created: createNewItem gives an item.  The file chooser
\* that calls it is not reachable while the modal BPM editor is open.
AddToLibrary(file, projectUsable, readable, tempBPM, created) ==
    LET detectedBPM == DetectedBpm(tempBPM)
    IN  /\ ~bpmEditor.open
        /\ IF ~projectUsable \/ ~ExistsAsFile(file) \/ ~SupportedFormat(file) \/ ~readable
           THEN /\ lastOp' = "addRejected"
                /\ UNCHANGED libraryItems
           ELSE IF HasItem(libraryItems, file)
           THEN /\ lastOp' = "addExisting"
                /\ libraryItems' =
                     (IF Abs(libraryItems[RowOf(libraryItems, file)].bpm - detectedBPM)
                           > TenthBpm
                      THEN SetBpm(libraryItems, file, detectedBPM)
                      ELSE libraryItems)
           ELSE /\ lastOp' = "addNew"
                /\ libraryItems' =
                     (IF created
                      THEN << [ file |-> file, bpm |-> detectedBPM ] >> \o libraryItems
                      ELSE libraryItems)
        /\ previousPlayState' = playState
        /\ UNCHANGED << bpmEditor, buttonClicks >>
        /\ UNCHANGED playerVars

\* removeFromLibrary (index), from the table
RemoveFromLibrary(index) ==
    /\ ~bpmEditor.open
    /\ index \in 1..Len(libraryItems)
    /\ libraryItems' = RemoveItem(libraryItems, index)
    /\ lastOp' = "remove"
    /\ previousPlayState' = playState
    /\ UNCHANGED << bpmEditor, buttonClicks >>
    /\ UNCHANGED playerVars

\* showBpmEditorWindow (rowIndex): the dialog opens on the item of the row,
\* with its BPM, or 120 for a BPM that is not positive, to one decimal place
ShowBpmEditorWindow(rowIndex) ==
    /\ ~bpmEditor.open
    /\ rowIndex \in 1..Len(libraryItems)
    /\ LET stored     == libraryItems[rowIndex].bpm
           currentBpm == IF stored <= 0 THEN DefaultBpm ELSE stored
       IN  \E text \in StringOneDecimal(currentBpm, 1) :
              bpmEditor' = [ open |-> TRUE, item |-> libraryItems[rowIndex].file,
                             text |-> text ]
    /\ lastOp' = "showEditor"
    /\ previousPlayState' = playState
    /\ UNCHANGED << libraryItems, buttonClicks >>
    /\ UNCHANGED playerVars

\* the user types into the editor
EditorTyped(text) ==
    /\ bpmEditor.open
    /\ bpmEditor' = [ bpmEditor EXCEPT !.text = text ]
    /\ lastOp' = "typed"
    /\ previousPlayState' = playState
    /\ UNCHANGED << libraryItems, buttonClicks >>
    /\ UNCHANGED playerVars

\* halfButton->onClick
HalfClicked ==
    /\ bpmEditor.open
    /\ buttonClicks < MaxClicks
    /\ \E text \in StringOneDecimal(bpmEditor.text, 2) :
          bpmEditor' = [ bpmEditor EXCEPT !.text = text ]
    /\ buttonClicks' = buttonClicks + 1
    /\ lastOp' = "half"
    /\ previousPlayState' = playState
    /\ UNCHANGED libraryItems
    /\ UNCHANGED playerVars

\* doubleButton->onClick
DoubleClicked ==
    /\ bpmEditor.open
    /\ buttonClicks < MaxClicks
    /\ bpmEditor.text <= MaxEditorBpm * BpmScale
    /\ \E text \in StringOneDecimal(2 * bpmEditor.text, 1) :
          bpmEditor' = [ bpmEditor EXCEPT !.text = text ]
    /\ buttonClicks' = buttonClicks + 1
    /\ lastOp' = "double"
    /\ previousPlayState' = playState
    /\ UNCHANGED libraryItems
    /\ UNCHANGED playerVars

\* a mutation of OkClicked: the value is written whatever it is
OkClickedUnchecked ==
    /\ bpmEditor.open
    /\ libraryItems' = SetBpm(libraryItems, bpmEditor.item, bpmEditor.text)
    /\ bpmEditor' = NoEditor
    /\ lastOp' = "okAccepted"
    /\ previousPlayState' = playState
    /\ UNCHANGED buttonClicks
    /\ UNCHANGED playerVars

\* okButton->onClick: a value that is not positive is turned down and the
\* dialog stays; any other is written to the item and the dialog closes
OkClicked ==
    /\ bpmEditor.open
    /\ LET newBpm == bpmEditor.text
       IN  IF newBpm <= 0
           THEN /\ lastOp' = "okRejected"
                /\ UNCHANGED << libraryItems, bpmEditor >>
           ELSE /\ lastOp' = "okAccepted"
                /\ libraryItems' = SetBpm(libraryItems, bpmEditor.item, newBpm)
                /\ bpmEditor' = NoEditor
    /\ previousPlayState' = playState
    /\ UNCHANGED buttonClicks
    /\ UNCHANGED playerVars

\* the dialog is closed with its close button or the escape key
EditorClosed ==
    /\ bpmEditor.open
    /\ bpmEditor' = NoEditor
    /\ lastOp' = "editorClosed"
    /\ previousPlayState' = playState
    /\ UNCHANGED << libraryItems, buttonClicks >>
    /\ UNCHANGED playerVars

NextLibrary ==
    \/ \E file \in LibraryFiles, projectUsable \in BOOLEAN, readable \in BOOLEAN,
          tempBPM \in DetectionResults, created \in BOOLEAN :
           AddToLibrary(file, projectUsable, readable, tempBPM, created)
    \/ \E index \in 1..2 : RemoveFromLibrary(index)
    \/ \E rowIndex \in 1..2 : ShowBpmEditorWindow(rowIndex)
    \/ \E text \in TypedTexts : EditorTyped(text)
    \/ HalfClicked
    \/ DoubleClicked
    \/ OkClicked
    \/ EditorClosed

\* the library alone
SpecLibrary == Init /\ [][NextLibrary]_vars

-----------------------------------------------------------------------------
(* Claims *)

Presses == { "pressUI", "pressPad" }

Releases == { "releaseUI", "releasePad" }

\* the minimum hold a release step tests: that of the UI or of the gamepad
MinimumHoldOf(op) == IF op = "releaseUI" THEN GetChopDurationInMs(liveTempo) ELSE trackOffset

\* the opposite extreme of a crossfader position
OppositeExtreme(position) == IF position <= 5000 THEN 10000 ELSE 0

\* C1: a file load leaves the live tempo at newBase * oldRatio, where
\* oldRatio = liveTempo / oldBase is taken before the base tempo is replaced
\* (stated for the loads whose tempos are all positive and finite).
C1_LoadPreservesRatio ==
    [][(/\ lastOp' = "load"
        /\ RPositive(baseTempo) /\ RPositive(baseTempo')
        /\ RPositive(liveTempo) /\ IsFinite(liveTempo))
       => liveTempo' = RMul(baseTempo', RDiv(liveTempo, baseTempo))]_vars

\* C2: a release of a pressed chop with elapsed >= minimumHold toggles the
\* crossfader to the opposite extreme in the same step, and schedules nothing:
\* the timer and the pending deferred release are as they were.
C2_LateReleaseToggles ==
    [][(/\ lastOp' \in Releases
        /\ chopState = "Pressed"
        /\ RGe(Real(now - chopStartTime), MinimumHoldOf(lastOp')))
       => /\ crossfader' = OppositeExtreme(crossfader)
          /\ timerInterval' = timerInterval
          /\ timerDue' = timerDue
          /\ deferredPending' = deferredPending
          /\ chopReleaseDelay' = chopReleaseDelay]_vars

\* C2 witness: a chop that was pressed has been released late, and the
\* crossfader is back at deck A with nothing scheduled.
C2_Witness ==
    /\ lastOp \in Releases
    /\ chopState = "Idle"
    /\ chopStartTime > 0
    /\ now - chopStartTime >= TimeStep
    /\ crossfader = 0
    /\ ~deferredPending

\* C3: a release of a pressed chop with elapsed < minimumHold leaves the
\* crossfader where it is and schedules the deferred release at the delay
\* minimumHold - elapsed; while it is pending the passing of time does not move
\* the crossfader, and its firing toggles the crossfader.
C3_EarlyReleaseDefers ==
    [][/\ (/\ lastOp' \in Releases
           /\ chopState = "Pressed"
           /\ RLt(Real(now - chopStartTime), MinimumHoldOf(lastOp')))
          => /\ crossfader' = crossfader
             /\ deferredPending'
             /\ Real(timerDue' - now) = RSub(MinimumHoldOf(lastOp'), Real(now - chopStartTime))
       /\ (deferredPending /\ lastOp' \in { "advance", "tick" }) => crossfader' = crossfader
       /\ (deferredPending /\ lastOp' = "deferredRelease")
          => crossfader' = OppositeExtreme(crossfader)]_vars

\* C4: a chop press cancels a pending deferred release: after a press none is
\* pending.
C4_PressCancelsDeferred ==
    [][lastOp' \in Presses => ~deferredPending']_vars

\* C5: a chop press records the press time and sets the crossfader to 1.0 when
\* the position is <= 0.5 and to 0.0 otherwise; the result is an extreme.
C5_PressTogglesToExtreme ==
    [][lastOp' \in Presses
       => /\ chopStartTime' = now
          /\ crossfader' = (IF crossfader <= 5000 THEN 10000 ELSE 0)
          /\ crossfader' \in { 0, 10000 }]_vars

\* C5 witness: a press has just taken the crossfader from above 0.5 to 0.0.
C5_Witness ==
    /\ lastOp \in Presses
    /\ chopStartTime = now
    /\ crossfader = 0

\* C6: the base tempo is > 0 in every reachable state.
C6_BaseTempoPositive == RPositive(baseTempo)

\* C7: the gains applied at position 0.0 are (0 dB, -60 dB), at 1.0 they are
\* (-60 dB, 0 dB), and at 0.5 both are -3.01 dB to within 0.01 dB.
C7_ReferenceGains ==
    lastOp = "crossfaderMoved"
    => /\ crossfader = 0 => (volumeDb1 = 0 /\ volumeDb2 = -6000)
       /\ crossfader = 10000 => (volumeDb1 = -6000 /\ volumeDb2 = 0)
       /\ crossfader = 5000 => (/\ volumeDb1 \in -302 .. -300
                                /\ volumeDb2 \in -302 .. -300)

\* C7 witness: the crossfader was moved to 0.5 and deck A is at -3.01 dB.
C7_Witness ==
    /\ lastOp = "crossfaderMoved"
    /\ crossfader = 5000
    /\ volumeDb1 = -301

\* C8: the linear gains are equal-power: gainA^2 + gainB^2 = 1 to within 0.0004.
C8_EqualPower ==
    Abs(gainTrack1 * gainTrack1 + gainTrack2 * gainTrack2 - GainScale * GainScale)
        <= 4 * GainScale

\* C8 witness: gains were computed strictly inside the fade, both decks audible.
C8_Witness ==
    /\ lastOp = "crossfaderMoved"
    /\ gainTrack1 > 0
    /\ gainTrack2 > 0
    /\ gainTrack1 # gainTrack2

\* C9: a deck whose linear gain is <= 0 is set to exactly -60 dB, and no
\* deck is ever set below -60 dB.
C9_FloorIsLowest ==
    lastOp = "crossfaderMoved"
    => /\ gainTrack1 <= 0 => volumeDb1 = -6000
       /\ gainTrack2 <= 0 => volumeDb2 = -6000
       /\ volumeDb1 >= -6000
       /\ volumeDb2 >= -6000

\* C10: every operation that sets the crossfader position (user gesture, chop
\* press, late release, deferred release, file load), and every step that
\* changes it, leaves deck A's volume at gainA_dB and deck B's at gainB_dB
\* of the new position.
C10_VolumesFollowPosition ==
    [][(\/ crossfader' # crossfader
        \/ lastOp' \in Presses \cup { "crossfaderMoved", "load", "deferredRelease" })
       => /\ volumeDb1' = GainDB1(crossfader')
          /\ volumeDb2' = GainDB2(crossfader')]_vars

\* C10 witness: a deferred release has fired and made deck A silent.
C10_Witness ==
    /\ lastOp = "deferredRelease"
    /\ crossfader = 10000
    /\ volumeDb1 = -6000
    /\ volumeDb2 = 0

\* a file has been loaded, and the tempos are positive and finite
Loaded == clip1 # NoClip

PositiveTempos ==
    /\ RPositive(baseTempo) /\ IsFinite(baseTempo)
    /\ RPositive(liveTempo) /\ IsFinite(liveTempo)

\* C11: a file load leaves the deck offset at 60000 / baseTempo ms for the
\* new base tempo: 500 ms for 120 BPM, 600 ms for 100 BPM.
C11_OffsetIsQuarterNote ==
    [][lastOp' = "load"
       => /\ trackOffset' = RDiv(Real(60000), baseTempo')
          /\ baseTempo' = Real(120) => trackOffset' = Real(500)
          /\ baseTempo' = Real(100) => trackOffset' = Real(600)]_vars

\* C11 witness: a file of 120 BPM has been loaded and the offset is 500 ms.
C11_Witness ==
    /\ lastOp = "load"
    /\ baseTempo = Real(120)
    /\ trackOffset = Real(500)

\* C12: once a file has been loaded, trackOffset = 60000 / baseTempo in every
\* state, deck B's clip has trackOffset / 1000 seconds as its clip offset, it
\* starts at timeline position 0, and it has the file and the length of deck
\* A's clip.
C12_OffsetFollowsBaseTempo ==
    Loaded
    => /\ trackOffset = RDiv(Real(60000), baseTempo)
       /\ clip2.offset = RDiv(trackOffset, Real(1000))
       /\ clip2.start = Real(0)
       /\ clip1.start = Real(0)
       /\ clip2.file = clip1.file
       /\ clip2.length = clip1.length

\* C12 witness: the file of 100 BPM has been loaded, and deck B's clip is
\* offset by 0.6 s.
C12_Witness ==
    /\ Loaded
    /\ baseTempo = Real(100)
    /\ clip2.file = "b.wav"
    /\ clip2.offset = << 3, 5 >>

\* C13: a tempo change and a file load leave the waveform display with the
\* speed ratio liveTempo / baseTempo of the tempos they end with (stated for
\* positive finite tempos).
C13_RatioIsLiveOverBase ==
    [][(/\ lastOp' \in { "tempoChanged", "load" }
        /\ RPositive(baseTempo') /\ IsFinite(baseTempo')
        /\ RPositive(liveTempo') /\ IsFinite(liveTempo'))
       => speedRatio' = RDiv(liveTempo', baseTempo')]_vars

C15_MinimumHoldAtRelease ==
    [][(/\ lastOp' \in Releases
        /\ chopState = "Pressed"
        /\ Loaded
        /\ PositiveTempos)
       => /\ (crossfader' # crossfader)
              <=> RGe(Real(now - chopStartTime), MinimumHoldOf(lastOp'))
          /\ lastOp' = "releaseUI" => RDiv(Real(60000), liveTempo) = trackOffset]_vars

\* C16: the crossfader position is in [0.0, 1.0] in every reachable state.
C16_CrossfaderInRange == crossfader \in 0 .. 10000

\* C16 witness: a deferred release has put the crossfader at 1.0.
C16_Witness ==
    /\ lastOp = "deferredRelease"
    /\ crossfader = 10000

\* C17: a left-stick event gives the flanger the speed 10 x (X axis) or the
\* depth 10 y (Y axis), and the width min ((x^2 + y^2) / 2, 0.99) of the
\* stick's last-seen x and y, to within 0.0002; at (1, 0) the width is 0.5 to
\* within 0.0002 and at (0, 0) it is 0.
C17_FlangerFromLeftStick ==
    /\ lastOp = "LEFTX" => flangerSpeed = 10 * leftX
    /\ lastOp = "LEFTY" => flangerDepth = 10 * leftY
    /\ lastOp \in { "LEFTX", "LEFTY" }
       => /\ LET w == (leftX * leftX + leftY * leftY) \div 20000
                 c == IF w > 9900 THEN 9900 ELSE w
             IN  flangerWidth - c \in -2 .. 2
          /\ flangerWidth \in 0 .. 9900
          /\ (leftX = 10000 /\ leftY = 0) => flangerWidth \in 4998 .. 5002
          /\ (leftX = 0 /\ leftY = 0) => flangerWidth = 0

\* C17 witness: the stick is at (1, 0) after an X event, and the width is 0.5.
C17_Witness ==
    /\ lastOp = "LEFTX"
    /\ leftX = 10000
    /\ leftY = 0
    /\ flangerSpeed = 100000
    /\ flangerWidth \in 4998 .. 5002

C19_DeferredOneShot ==
    [][/\ lastOp' = "deferredRelease"
          => /\ crossfader' = OppositeExtreme(crossfader)
             /\ ~deferredPending'
             /\ chopState' = "Idle"
       /\ (lastOp' \in Releases /\ chopState' = "PendingRelease") => ~deferredPending
       /\ (chopState = "Idle" /\ lastOp' \in { "tick", "deferredRelease" })
          => crossfader' = crossfader]_vars

\* C20: the timer of the component keeps the period of the 30 Hz tick, 33 ms,
\* in every reachable state.
C20_TickKeepsCadence == timerInterval = 1000 \div 30

\* C21: after a stick event, whatever raw values the axes have carried, the
\* width of the flanger is in [0, 0.99] and the feedback of the phaser is in
\* [0, 0.70] and is the distance sqrt (x^2 + y^2) of the right stick, not
\* squared, limited to 0.70 (to within 0.0001); speed, depth and rate are 10
\* times the raw value of their axis, which nothing clamps.
C21_DerivedOutputsClamped ==
    /\ flangerWidth \in 0 .. 9900
    /\ phaserFeedback \in 0 .. 7000
    /\ lastOp \in { "RIGHTX", "RIGHTY" }
       => LET d2 == rightX * rightX + rightY * rightY
          IN  IF d2 >= 7000 * 7000
              THEN phaserFeedback = 7000
              ELSE Abs(phaserFeedback * phaserFeedback - d2) <= 2 * phaserFeedback + 1
    /\ lastOp = "LEFTX" => flangerSpeed = 10 * leftX
    /\ lastOp = "LEFTY" => flangerDepth = 10 * leftY
    /\ lastOp = "RIGHTX" => phaserRate = 10 * rightX
    /\ lastOp = "RIGHTY" => phaserDepth = 10 * rightY

\* C21 witness: both sticks have carried the raw value 1.5 on X: speed and rate
\* are 15, the width is 0.99 and the feedback 0.70; the right stick was then
\* moved to (0.5, 0), where the feedback is 0.5.
C21_Witness ==
    /\ lastOp = "RIGHTX"
    /\ leftX > 10000
    /\ flangerSpeed = 10 * leftX
    /\ flangerWidth = 9900
    /\ rightX = 5000
    /\ rightY = 0
    /\ phaserFeedback = 5000

\* C22: an event of a stick axis leaves the stored values of the other three
\* axes as they were, and changes the parameters of its own effect only; an
\* event of any other axis id of SpecAxis changes no stored value and no
\* effect parameter.
C22_AxisFrame ==
    [][/\ lastOp' = "LEFTX" => UNCHANGED << leftY, rightX, rightY >>
       /\ lastOp' = "LEFTY" => UNCHANGED << leftX, rightX, rightY >>
       /\ lastOp' = "RIGHTX" => UNCHANGED << leftX, leftY, rightY >>
       /\ lastOp' = "RIGHTY" => UNCHANGED << leftX, leftY, rightX >>
       /\ lastOp' \in { "LEFTX", "LEFTY" }
          => UNCHANGED << phaserRate, phaserDepth, phaserFeedback, brakeValue, springActive >>
       /\ lastOp' \in { "RIGHTX", "RIGHTY" }
          => UNCHANGED << flangerSpeed, flangerDepth, flangerWidth, brakeValue, springActive >>
       /\ lastOp' \in { "LEFT_TRIGGER", "UNKNOWN" }
          => UNCHANGED << leftX, leftY, rightX, rightY, flangerSpeed, flangerDepth,
                          flangerWidth, phaserRate, phaserDepth, phaserFeedback,
                          brakeValue, springActive >>]_vars

\* C22 witness: all four axes hold a value of their own, and the last event
\* was one of an id the switch does not name.
C22_Witness ==
    /\ lastOp = "UNKNOWN"
    /\ leftX = 10000
    /\ leftY = 5000
    /\ rightX = -5000
    /\ rightY = -10000

\* C23: a right-trigger event of value v < 0.01 with the brake value > 0
\* starts the spring animation and leaves the brake value as it is; every
\* other right-trigger event sets the brake value to v and leaves the spring
\* animation as it is.
C23_BrakeTrigger ==
    [][lastOp' = "RIGHT_TRIGGER"
       => IF rightTrigger' < 100 /\ brakeValue > 0
          THEN springActive' /\ brakeValue' = brakeValue
          ELSE brakeValue' = rightTrigger' /\ springActive' = springActive]_vars

\* C23 witness: the trigger was let go below 0.01 with the brake on, and the
\* spring animation runs from the brake value the trigger had set.
C23_Witness ==
    /\ lastOp = "RIGHT_TRIGGER"
    /\ rightTrigger = 99
    /\ brakeValue = 10000
    /\ springActive

\* C24: a chop release made while the chop is Idle changes neither the
\* crossfader nor the timer, and leaves nothing pending that was not (stated
\* once a file is loaded, for positive finite tempos).
C24_ReleaseInIdleIsNoOp ==
    [][(/\ lastOp' \in Releases
        /\ chopState = "Idle"
        /\ Loaded
        /\ PositiveTempos)
       => /\ crossfader' = crossfader
          /\ timerInterval' = timerInterval
          /\ timerDue' = timerDue
          /\ deferredPending' = deferredPending]_vars

\* C26: a file load leaves no deferred chop release pending, so that no
\* firing of the timer moves the crossfader from the 0.0 the load has set.
C26_LoadLeavesNothingPending ==
    [][/\ lastOp' = "load" => ~deferredPending'
       /\ (lastOp = "load" /\ lastOp' \in { "tick", "deferredRelease", "advance" })
          => crossfader' = 0]_vars

\* C25: a chop gesture that begins with the chop Idle, nothing pending and the
\* crossfader at 0.0 or 1.0, and runs undisturbed (press, release, and the
\* deferred firing after an early release; only time passes in between), ends
\* with the crossfader where it began.
C25_GestureReturnsToStart ==
    [][(/\ chopOrigin # -1
        /\ \/ chopState = "Pressed" /\ lastOp' \in Releases /\ chopState' = "Idle"
           \/ chopState = "PendingRelease" /\ lastOp' = "deferredRelease")
       => crossfader' = chopOrigin]_vars

\* C25 witness: a gesture that began at 1.0 was released early, and the
\* deferred release has brought the crossfader back to 1.0.
C25_Witness ==
    /\ lastOp = "deferredRelease"
    /\ chopOrigin = 10000
    /\ crossfader = 10000
    /\ chopState = "Idle"

\* C27: a file selection that is turned down (the file does not exist, is not
\* valid audio, or one of the two tracks is unavailable) changes neither the
\* base tempo, the track offset, the live tempo, the crossfader position, the
\* clips of either track, nor the play state.
C27_FailedLoadChangesNothing ==
    [][lastOp' = "loadRejected"
       => UNCHANGED << baseTempo, trackOffset, liveTempo, crossfader, clip1, clip2,
                       track1Clips, track2Clips, playState >>]_vars

\* a file is loaded and playing when a selection is turned down
C27_Witness ==
    /\ lastOp = "loadRejected"
    /\ track1Clips # { }
    /\ track2Clips # { }
    /\ playState = "Playing"

\* C28: after a successful file load, whatever the crossfader position was, the
\* crossfader is at 0.0 with deck A at 0 dB and deck B at -60 dB, and each of
\* the two tracks holds exactly one clip, both of the newly selected file.
C28_LoadResetsCrossfaderAndClips ==
    [][lastOp' = "load"
       => /\ crossfader' = 0
          /\ volumeDb1' = 0
          /\ volumeDb2' = MinDB
          /\ track1Clips' = { clip1' }
          /\ track2Clips' = { clip2' }
          /\ \E file \in Files :
                /\ clip1'.file = file
                /\ clip2'.file = file
                /\ baseTempo' = Real(GetBPMForFile(file))]_vars

\* a file is loaded while a chop button is held
C28_Witness ==
    /\ lastOp = "load"
    /\ clip1.file = "b.wav"
    /\ chopState = "Pressed"
    /\ Cardinality(track1Clips) = 1
    /\ Cardinality(track2Clips) = 1

\* C29: a successful file load leaves the transport playing from position 0,
\* playState Playing and the play and stop buttons on and off, whether the
\* transport was playing or stopped before; stop() leaves playState Stopped,
\* the transport stopped at position 0.
C29_LoadPlaysStopStops ==
    [][/\ lastOp' = "load"
          => /\ playState' = "Playing"
             /\ transportPlaying'
             /\ transportPosition' = 0
             /\ playButtonState'
             /\ ~stopButtonState'
       /\ lastOp' = "stop"
          => /\ playState' = "Stopped"
             /\ ~transportPlaying'
             /\ transportPosition' = 0]_vars

\* a file is loaded while another one plays
C29_Witness ==
    /\ lastOp = "load"
    /\ previousPlayState = "Playing"
    /\ playState = "Playing"
    /\ playButtonState
    /\ transportPosition = 0

\* C30: every BPM that addToLibrary or the BPM editor writes to a library item
\* is greater than 0 (a detection result that is not positive gives 120); an
\* editor value that is not positive is turned down, the stored BPMs unchanged
\* and the dialog still open; and adding a file that is in the library
\* already makes no second item for it.
C30_WrittenBpmPositive ==
    [][/\ lastOp' \in { "addNew", "addExisting", "okAccepted" }
          => \A i \in 1..Len(libraryItems') :
                \/ libraryItems'[i].bpm > 0
                \/ \E j \in 1..Len(libraryItems) : libraryItems[j] = libraryItems'[i]
       /\ (lastOp' = "addNew" /\ Len(libraryItems') > Len(libraryItems))
          => libraryItems'[1].bpm > 0
       /\ lastOp' = "okRejected"
          => /\ bpmEditor.text <= 0
             /\ UNCHANGED << libraryItems, bpmEditor >>
             /\ bpmEditor'.open
       /\ (lastOp' = "okAccepted" /\ bpmEditor.text <= 0) => FALSE
       /\ lastOp' = "addExisting" => Len(libraryItems') = Len(libraryItems)
       /\ \A i, j \in 1..Len(libraryItems') :
             libraryItems'[i].file = libraryItems'[j].file => i = j]_vars

\* the editor has turned down a text of 0.0, the library holding two items,
\* one with the fallback BPM
C30_Witness ==
    /\ lastOp = "okRejected"
    /\ bpmEditor.open
    /\ bpmEditor.text = 0
    /\ Len(libraryItems) = 2
    /\ \E i \in 1..2 : libraryItems[i].bpm = DefaultBpm

=============================================================================
